---- MODULE Spec2Model ----
(***************************************************************************)
(* A model of the patricia_router radix tree: Tree::add and Tree::find     *)
(* (src/src/tree.rs), the Node they build (src/src/node.rs), the Result    *)
(* find returns (src/src/result.rs) and the key utilities                  *)
(* (src/src/utils.rs).                                                     *)
(*                                                                         *)
(* A Rust String is modelled as a sequence of scalars, each scalar a       *)
(* one-character TLA+ string.  The code mixes two lengths of a string:     *)
(* chars().count() (scalars, Len here) and len()/bytes().len() (UTF-8      *)
(* bytes, ByteLen here); the model keeps both apart.                       *)
(***************************************************************************)
EXTENDS Integers, Sequences, FiniteSets, TLC

VARIABLES root, calls, op, path, result

vars == <<root, calls, op, path, result>>

(***************************************************************************)
(* Bounds of the model.                                                    *)
(***************************************************************************)
\* number of Tree::add calls in a run
MaxAdds == 2
\* number of "/"-introduced segments in a pattern or a query path
MaxSegs == 2
\* number of Tree::add calls in a run of the named-parameter routes
MaxRouteAdds == 3

(***************************************************************************)
(* Scalars.  "U" stands for a scalar whose UTF-8 encoding takes three      *)
(* bytes (such as the kana of the unicode tests); every other scalar of    *)
(* the model is one byte long.                                             *)
(***************************************************************************)
Wide == {"U"}

ByteWidth(c) == IF c \in Wide THEN 3 ELSE 1

\* str.len() / str.bytes().len(): the length in UTF-8 bytes
RECURSIVE ByteLen(_)
ByteLen(s) == IF s = <<>> THEN 0 ELSE ByteWidth(Head(s)) + ByteLen(Tail(s))

\* Option<char>::None
NoChar == ""

\* s.chars().nth(i), i counted from 0
Nth(s, i) == IF i >= 0 /\ i < Len(s) THEN s[i + 1] ELSE NoChar

(***************************************************************************)
(* src/src/utils.rs                                                        *)
(***************************************************************************)
prefix(target, end) ==
    IF end >= Len(target) THEN target ELSE SubSeq(target, 1, end)

suffix(target, begin) ==
    IF begin >= Len(target) THEN <<>> ELSE SubSeq(target, begin + 1, Len(target))

\* skip(begin).take(end - begin); end - begin is a usize subtraction
substring(target, begin, end) == prefix(suffix(target, begin), end - begin)

\* substring computes end - begin on unsigned integers: the subtraction
\* fails (a panic in a checked build) when end is less than begin
substring_underflows(begin, end) == end < begin

\* position of the first "/" of s counted from 0, or -1
RECURSIVE SlashPosition(_, _)
SlashPosition(s, i) ==
    IF i >= Len(s) THEN -1
    ELSE IF s[i + 1] = "/" THEN i
    ELSE SlashPosition(s, i + 1)

\* detect_param_size returning the size of the parameter, not its end
detect_param_size_relative(key, old_pos) ==
    LET rest_key == suffix(key, old_pos)
        pos == SlashPosition(rest_key, 0)
    IN  IF pos >= 0 THEN pos ELSE ByteLen(rest_key)

detect_param_size(key, old_pos) ==
    LET rest_key == suffix(key, old_pos)
        pos == SlashPosition(rest_key, 0)
    IN  IF pos >= 0 THEN old_pos + pos ELSE old_pos + ByteLen(rest_key)

\* the first index (from 0) at which the zipped scan of same_key stops
RECURSIVE SameKeyStop(_, _, _)
SameKeyStop(path_, key, i) ==
    IF i >= Len(path_) \/ i >= Len(key) THEN i
    ELSE IF path_[i + 1] # "/" /\ key[i + 1] # "/" /\ path_[i + 1] = key[i + 1]
         THEN SameKeyStop(path_, key, i + 1)
         ELSE i

same_key(path_, key) ==
    LET i == SameKeyStop(path_, key, 0)
    IN  IF i < Len(path_) /\ i < Len(key)
        THEN path_[i + 1] = "/"
        ELSE ByteLen(path_) < ByteLen(key)

\* same_first_char either panics ("shared key error") or returns a boolean
same_first_char_panics(a, b) ==
    Nth(a, 0) = ":" /\ Nth(b, 0) = ":" /\ ~same_key(a, b)

\* same_first_char comparing the two keys whole
same_first_char_whole_key(a, b) == a = b

same_first_char(a, b) == Nth(a, 0) = Nth(b, 0)

check_markers(ch) == ch = "/" \/ ch = ":" \/ ch = "*"

RECURSIVE SharedKeyLoop(_, _, _)
SharedKeyLoop(path_, key, i) ==
    LET p == Nth(path_, i)
        k == Nth(key, i)
    IN  IF p = NoChar \/ k = NoChar \/ check_markers(p) \/ check_markers(k)
        THEN k = NoChar \/ check_markers(k)
        ELSE IF p # k THEN FALSE
        ELSE SharedKeyLoop(path_, key, i + 1)

shared_key(path_, key) ==
    IF Nth(path_, 0) # Nth(key, 0) /\ check_markers(Nth(key, 0))
    THEN FALSE
    ELSE SharedKeyLoop(path_, key, 0)

\* has_trailing_slash with the position compared to the size itself
has_trailing_slash_at_size(end, size, path_) ==
    end = size /\ Nth(path_, end) = "/"

has_trailing_slash(end, size, path_) ==
    end + 1 = size /\ Nth(path_, end) = "/"

(***************************************************************************)
(* src/src/node.rs                                                         *)
(***************************************************************************)
Normal == 0
Named == 1
Glob == 2

\* Option<T>::None of a payload; payloads are positive numbers
NoPayload == 0

RECURSIVE MarkerScan(_, _)
MarkerScan(key, i) ==
    IF i >= Len(key) THEN [priority |-> ByteLen(key), kind |-> Normal]
    ELSE IF key[i + 1] = "*" THEN [priority |-> i, kind |-> Glob]
    ELSE IF key[i + 1] = ":" THEN [priority |-> i, kind |-> Named]
    ELSE MarkerScan(key, i + 1)

compute_priority(key) == MarkerScan(key, 0)

NewNode(k, payload, placeholder) ==
    [key |-> k,
     payload |-> payload,
     placeholder |-> placeholder,
     children |-> <<>>,
     kind |-> compute_priority(k).kind,
     priority |-> compute_priority(k).priority]

set_key(node, value) ==
    [node EXCEPT !.key = value,
                 !.priority = compute_priority(value).priority,
                 !.kind = compute_priority(value).kind]

\* Node::cmp(a, b) = Less
cmp_less(a, b) ==
    IF a.kind # b.kind THEN a.kind < b.kind ELSE b.priority < a.priority

\* where a stable sort puts x into the sorted sequence s: before the first
\* element that x is Less than
RECURSIVE InsertSorted(_, _)
InsertSorted(s, x) ==
    IF s = <<>> THEN <<x>>
    ELSE IF cmp_less(x, Head(s)) THEN <<x>> \o s
    ELSE <<Head(s)>> \o InsertSorted(Tail(s), x)

RECURSIVE StableSort(_)
StableSort(s) ==
    IF s = <<>> THEN <<>>
    ELSE InsertSorted(StableSort(SubSeq(s, 1, Len(s) - 1)), s[Len(s)])

sort_children(node) == [node EXCEPT !.children = StableSort(@)]

has_catch_all(node, pos, size) ==
    LET current == Nth(node.key, pos)
        next == Nth(node.key, pos + 1)
    IN  pos < size /\ ((current = "/" /\ next = "*") \/ current = "*")

is_named_or_catch_all(node) ==
    Nth(node.key, 0) = "*" \/ Nth(node.key, 0) = ":"

(***************************************************************************)
(* src/src/tree.rs: Tree::new, Tree::add                                   *)
(***************************************************************************)
\* outcomes of an add: it returns, or it panics with one of two messages
NoError == "ok"
DuplicateError == "duplicate error"
SharedKeyError == "shared key error"

TreeNew == NewNode(<<>>, NoPayload, TRUE)

\* the number of leading scalars path_ and key have in common (the loop of
\* add_internal over the two peekable iterators)
RECURSIVE CommonPrefix(_, _, _)
CommonPrefix(path_, key, pos) ==
    IF pos >= Len(path_) \/ pos >= Len(key) \/ path_[pos + 1] # key[pos + 1]
    THEN pos
    ELSE CommonPrefix(path_, key, pos + 1)

\* node.children.iter_mut().find(|child| same_first_char(new_key, &child.key)):
\* the index of the first child the predicate accepts, 0 when there is none,
\* -1 when the predicate panics on a child visited before any is accepted
RECURSIVE find_child(_, _, _)
find_child(new_key, children, i) ==
    IF i > Len(children) THEN 0
    ELSE IF same_first_char_panics(new_key, children[i].key) THEN -1
    ELSE IF same_first_char(new_key, children[i].key) THEN i
    ELSE find_child(new_key, children, i + 1)

\* add_internal returns [err, node]: node is the subtree after the call
RECURSIVE add_internal(_, _, _)
add_internal(path_, payload, node) ==
    LET pos == CommonPrefix(path_, node.key, 0)
        rest_path == suffix(path_, pos)
        key_size == ByteLen(node.key)
        path_size == ByteLen(path_)
    IN  IF pos = 0 \/ (key_size <= pos /\ pos < path_size)
        THEN LET i == find_child(rest_path, node.children, 1)
             IN  IF i = -1 THEN [err |-> SharedKeyError, node |-> node]
                 ELSE IF i = 0
                 THEN [err |-> NoError,
                       node |-> sort_children(
                           [node EXCEPT !.children =
                               Append(@, NewNode(rest_path, payload, FALSE))])]
                 ELSE LET r == add_internal(rest_path, payload, node.children[i])
                      IN  IF r.err # NoError THEN [err |-> r.err, node |-> node]
                          ELSE [err |-> NoError,
                                node |-> sort_children(
                                    [node EXCEPT !.children[i] = r.node])]
        ELSE IF key_size = pos /\ pos = path_size
        THEN IF node.payload # NoPayload
             THEN [err |-> DuplicateError, node |-> node]
             ELSE [err |-> NoError, node |-> [node EXCEPT !.payload = payload]]
        ELSE IF 0 < pos /\ pos < key_size
        THEN LET new_node ==
                     [NewNode(suffix(node.key, pos), NoPayload, FALSE)
                         EXCEPT !.payload = node.payload,
                                !.children = node.children]
                 split ==
                     [set_key(node, prefix(path_, pos))
                         EXCEPT !.payload = NoPayload,
                                !.children = <<new_node>>]
             IN  [err |-> NoError,
                  node |-> sort_children(
                      IF pos < path_size
                      THEN [split EXCEPT !.children =
                               Append(@, NewNode(rest_path, payload, FALSE))]
                      ELSE [split EXCEPT !.payload = payload])]
        ELSE [err |-> NoError, node |-> node]

\* Tree::add
add(tree, path_, payload) ==
    IF tree.placeholder
    THEN [err |-> NoError, node |-> NewNode(path_, payload, FALSE)]
    ELSE add_internal(path_, payload, tree)

(***************************************************************************)
(* src/src/result.rs.  A Result borrows the nodes it was given; the model  *)
(* keeps the key of each (all that key() reads) and the payload the        *)
(* payload reference points to.  params is the HashMap, a function from    *)
(* parameter names to values.                                              *)
(***************************************************************************)
NoParams == [n \in {} |-> <<>>]

\* HashMap::insert
Insert(params, name, value) ==
    [n \in DOMAIN params \cup {name} |-> IF n = name THEN value ELSE params[n]]

ResultNew == [nodes |-> <<>>, params |-> NoParams, payload |-> NoPayload]

\* Result::add appending the node only when it also takes its payload
result_add_with_payload_only(res, node, payload) ==
    [res EXCEPT !.nodes = IF payload THEN Append(@, node.key) ELSE @,
                !.payload = IF payload /\ node.payload # NoPayload
                            THEN node.payload ELSE @]

result_add(res, node, payload) ==
    [res EXCEPT !.nodes = Append(@, node.key),
                !.payload = IF payload /\ node.payload # NoPayload
                            THEN node.payload ELSE @]

RECURSIVE compute_key(_)
compute_key(nodes) ==
    IF nodes = <<>> THEN <<>> ELSE Head(nodes) \o compute_key(Tail(nodes))

\* Result::key
key_of(res) == compute_key(res.nodes)

(***************************************************************************)
(* src/src/tree.rs: Tree::find                                             *)
(***************************************************************************)
\* The main scan of find_internal.  It ends by a break (stop = "break") or
\* by the return of the catch-all branch (stop = "catch_all").
RECURSIVE scan(_, _, _, _, _)
scan(path_, key, path_pos, key_pos, params) ==
    LET path_current == Nth(path_, path_pos)
        key_current == Nth(key, key_pos)
    IN  IF path_current = NoChar \/ key_current = NoChar
        THEN [stop |-> "break", path_pos |-> path_pos, key_pos |-> key_pos,
              params |-> params]
        ELSE IF key_current # "*" /\ key_current # ":" /\ path_current # key_current
        THEN [stop |-> "break", path_pos |-> path_pos, key_pos |-> key_pos,
              params |-> params]
        ELSE IF key_current = "*"
        THEN [stop |-> "catch_all", path_pos |-> path_pos, key_pos |-> key_pos,
              params |-> Insert(params, suffix(key, key_pos + 1),
                                suffix(path_, path_pos))]
        ELSE IF key_current = ":"
        THEN LET key_size == detect_param_size(key, key_pos)
                 path_size == detect_param_size(path_, path_pos)
                 name == substring(key, key_pos + 1, key_size)
                 value == substring(path_, path_pos, path_size)
             IN  scan(path_, key, path_pos + path_size + 1,
                      key_pos + key_size + 1, Insert(params, name, value))
        ELSE scan(path_, key, path_pos + 1, key_pos + 1, params)

\* node.children.iter().find(|child| child.is_named_or_catch_all()
\*                                   || shared_key(&new_path, &child.key)):
\* the index of the first such child, 0 when there is none
RECURSIVE find_next(_, _, _)
find_next(new_path, children, i) ==
    IF i > Len(children) THEN 0
    ELSE IF is_named_or_catch_all(children[i]) \/ shared_key(new_path, children[i].key)
    THEN i
    ELSE find_next(new_path, children, i + 1)

RECURSIVE find_internal(_, _, _, _)
find_internal(path_, res0, node, first) ==
    LET key_size == Len(node.key)
        path_size == Len(path_)
    IN  IF first /\ path_size = key_size /\ path_ = node.key
           /\ node.payload # NoPayload
        THEN result_add(res0, node, TRUE)
        ELSE
        LET s == scan(path_, node.key, 0, 0, res0.params)
            res == [res0 EXCEPT !.params = s.params]
            path_pos == s.path_pos
            key_pos == s.key_pos
            path_next == Nth(path_, path_pos)
            key_next == Nth(node.key, key_pos)
        IN  IF s.stop = "catch_all" THEN result_add(res, node, TRUE)
            ELSE IF path_next = NoChar /\ key_next = NoChar
                    /\ node.payload # NoPayload
            THEN result_add(res, node, TRUE)
            ELSE IF path_next # NoChar
            THEN IF 0 < key_size /\ has_trailing_slash(path_pos, path_size, path_)
                 THEN result_add(res, node, TRUE)
                 ELSE LET new_path == suffix(path_, path_pos)
                          i == find_next(new_path, node.children, 1)
                      IN  IF i # 0
                          THEN find_internal(new_path, result_add(res, node, FALSE),
                                             node.children[i], FALSE)
                          ELSE res
            ELSE IF key_next # NoChar
            THEN IF has_trailing_slash(key_pos, key_size, node.key)
                 THEN result_add(res, node, TRUE)
                 ELSE IF has_catch_all(node, key_pos, key_size)
                 THEN LET kp == IF key_next # "*" THEN key_pos + 1 ELSE key_pos
                      IN  result_add(
                              [res EXCEPT !.params =
                                  Insert(@, suffix(node.key, kp + 1), <<>>)],
                              node, TRUE)
                 ELSE res
            ELSE res

\* whether the main scan of find_internal, started at these positions, reaches
\* a substring call whose subtraction underflows
RECURSIVE scan_panics(_, _, _, _)
scan_panics(path_, key, path_pos, key_pos) ==
    LET path_current == Nth(path_, path_pos)
        key_current == Nth(key, key_pos)
    IN  IF path_current = NoChar \/ key_current = NoChar THEN FALSE
        ELSE IF key_current # "*" /\ key_current # ":" /\ path_current # key_current
        THEN FALSE
        ELSE IF key_current = "*" THEN FALSE
        ELSE IF key_current = ":"
        THEN LET key_size == detect_param_size(key, key_pos)
                 path_size == detect_param_size(path_, path_pos)
             IN  \/ substring_underflows(key_pos + 1, key_size)
                 \/ substring_underflows(path_pos, path_size)
                 \/ scan_panics(path_, key, path_pos + path_size + 1,
                                key_pos + key_size + 1)
        ELSE scan_panics(path_, key, path_pos + 1, key_pos + 1)

\* whether find_internal panics: in the scan of this node or, when it
\* descends, in the child it descends into
RECURSIVE find_panics(_, _, _)
find_panics(path_, node, first) ==
    LET key_size == Len(node.key)
        path_size == Len(path_)
    IN  IF first /\ path_size = key_size /\ path_ = node.key
           /\ node.payload # NoPayload
        THEN FALSE
        ELSE IF scan_panics(path_, node.key, 0, 0) THEN TRUE
        ELSE
        LET s == scan(path_, node.key, 0, 0, NoParams)
            path_next == Nth(path_, s.path_pos)
            new_path == suffix(path_, s.path_pos)
            i == find_next(new_path, node.children, 1)
        IN  /\ s.stop # "catch_all"
            /\ path_next # NoChar
            /\ ~(0 < key_size /\ has_trailing_slash(s.path_pos, path_size, path_))
            /\ i # 0
            /\ find_panics(new_path, node.children[i], FALSE)

\* Tree::find
find(tree, path_) == find_internal(path_, ResultNew, tree, TRUE)

(***************************************************************************)
(* The inputs of the model.  Patterns and query paths are URL-style: one   *)
(* to MaxSegs segments, each introduced by "/", none empty but possibly    *)
(* the last (a trailing "/").                                              *)
(***************************************************************************)
\* pattern segments: empty, literals, named parameters, catch-alls
Segs ==
    { <<>>, <<"a">>, <<"b">>, <<"U">>,
      <<":", "a">>, <<":", "b">>, <<"*", "a">>, <<"a", "*", "a">> }

\* segments of a query path
PathSegs == { <<>>, <<"a">>, <<"b">>, <<"U">>, <<"b", "b">> }

RECURSIVE Joined(_, _)
Joined(segs, n) ==
    IF n = 0 THEN { <<>> }
    ELSE { p \o <<"/">> \o s :
             p \in { q \in Joined(segs, n - 1) : q = <<>> \/ q[Len(q)] # "/" },
             s \in segs }

Patterns == UNION { Joined(Segs, n) : n \in 1..MaxSegs }

\* the query paths: the joined segments, the empty path and the path "//"
Paths ==
    UNION { Joined(PathSegs, n) : n \in 1..MaxSegs } \cup { <<>>, <<"/", "/">> }

(***************************************************************************)
(* The state machine.  root is Tree.root.  calls is the history of the add *)
(* calls made: pattern, payload and outcome of each; the payload of the    *)
(* n-th call is n.  path and result are the argument and the value of the  *)
(* latest find; a Result borrows the tree, so none is alive across an add. *)
(* A panic ends the run.                                                   *)
(***************************************************************************)
Init ==
    /\ root = TreeNew
    /\ calls = <<>>
    /\ op = "new"
    /\ path = <<>>
    /\ result = ResultNew

\* Tree::add as one of at most max calls of a run
AddWithin(p, max) ==
    /\ op # "panic"
    /\ Len(calls) < max
    /\ LET payload == Len(calls) + 1
           r == add(root, p, payload)
       IN  /\ root' = r.node
           /\ calls' = Append(calls, [pattern |-> p, payload |-> payload,
                                      err |-> r.err])
           /\ op' = IF r.err = NoError THEN "add" ELSE "panic"
    /\ path' = <<>>
    /\ result' = ResultNew

Add(p) == AddWithin(p, MaxAdds)

Find(q) ==
    /\ op # "panic"
    /\ path' = q
    /\ result' = find(root, q)
    /\ op' = "find"
    /\ UNCHANGED <<root, calls>>

DoAdd == \E p \in Patterns : Add(p)

DoFind == \E q \in Paths : Find(q)

Next == DoAdd \/ DoFind

Spec == Init /\ [][Next]_vars

(***************************************************************************)
(* A second state machine for the registrations of named parameters under  *)
(* a common parent: one more add per run, over a few routes.               *)
(***************************************************************************)
Routes ==
    { <<"/">>,
      <<"/", ":", "a">>,
      <<"/", ":", "b">>,
      <<"/", ":", "a", "/", "b">>,
      <<"/", "a", "/", ":", "a">>,
      <<"/", "a", "/", ":", "a", "/", "b">>,
      <<"/", "*", "a">>,
      <<"/", "a", "*", "a">> }

AddRoute(p) == AddWithin(p, MaxRouteAdds)

DoAddRoute == \E p \in Routes : AddRoute(p)

NextRoutes == DoAddRoute \/ DoFind

SpecRoutes == Init /\ [][NextRoutes]_vars

(***************************************************************************)
(* What the properties below speak about: the registrations made so far    *)
(* and a reference reading of "pattern matches path" (section 6 of the     *)
(* specification), independent of the tree.                                *)
(***************************************************************************)
LastCall == calls[Len(calls)]

\* the calls that returned: the registered (pattern, payload) pairs
Registered == { calls[i] : i \in { j \in 1..Len(calls) : calls[j].err = NoError } }

RegisteredBefore == { calls[i] : i \in { j \in 1..(Len(calls) - 1) : calls[j].err = NoError } }

\* the pattern a payload was registered for (the n-th call registers payload n)
PatternOf(payload) == calls[payload].pattern

HasMarker(p, m) == \E i \in 1..Len(p) : p[i] = m

IsLiteral(p) == ~HasMarker(p, ":") /\ ~HasMarker(p, "*")

EndsWithSlash(p) == Len(p) > 0 /\ p[Len(p)] = "/"

\* index (from 0) of the first "/" of s at or after i, or Len(s)
RECURSIVE SegEnd(_, _)
SegEnd(s, i) ==
    IF i >= Len(s) THEN Len(s)
    ELSE IF s[i + 1] = "/" THEN i
    ELSE SegEnd(s, i + 1)

\* index (from 0) of the first "*" of p, or Len(p)
RECURSIVE StarAt(_, _)
StarAt(p, i) ==
    IF i >= Len(p) THEN Len(p)
    ELSE IF p[i + 1] = "*" THEN i
    ELSE StarAt(p, i + 1)

\* the positions (from 0) at which p introduces a named parameter
NamedAt(p) == { i \in 0..(StarAt(p, 0) - 1) : p[i + 1] = ":" }

NameAt(p, i) == SubSeq(p, i + 2, SegEnd(p, i))

\* the names of the parameters of p: every :name, and the *name if any
ParamNames(p) ==
    { NameAt(p, i) : i \in NamedAt(p) }
    \cup (IF StarAt(p, 0) < Len(p) THEN { SubSeq(p, StarAt(p, 0) + 2, Len(p)) } ELSE {})

\* The reference match of pattern pat against path q from positions i, j
\* (counted from 0): literal scalars match themselves, :name takes the
\* scalars up to the next "/" or the end (none only if empty_ok), *name takes
\* everything left.  [ok, params].
RECURSIVE RefMatch(_, _, _, _, _, _)
RefMatch(pat, q, i, j, empty_ok, params) ==
    IF i >= Len(pat) THEN [ok |-> j >= Len(q), params |-> params]
    ELSE IF pat[i + 1] = "*"
    THEN [ok |-> TRUE,
          params |-> Insert(params, SubSeq(pat, i + 2, Len(pat)),
                            SubSeq(q, j + 1, Len(q)))]
    ELSE IF pat[i + 1] = ":"
    THEN IF SegEnd(q, j) = j /\ ~empty_ok
         THEN [ok |-> FALSE, params |-> params]
         ELSE RefMatch(pat, q, SegEnd(pat, i), SegEnd(q, j), empty_ok,
                       Insert(params, NameAt(pat, i), SubSeq(q, j + 1, SegEnd(q, j))))
    ELSE IF j < Len(q) /\ q[j + 1] = pat[i + 1]
    THEN RefMatch(pat, q, i + 1, j + 1, empty_ok, params)
    ELSE [ok |-> FALSE, params |-> params]

\* pat matches q scalar for scalar, every named parameter taking a non-empty
\* segment
Matches(pat, q) == RefMatch(pat, q, 0, 0, FALSE, NoParams).ok

\* the bindings of that match, a named parameter allowed to be empty
Bindings(pat, q) == RefMatch(pat, q, 0, 0, TRUE, NoParams)

\* the widest reading of "matches": a named parameter may take an empty
\* segment, one trailing "/" is ignored on either side, and a catch-all
\* (with the "/" before it) may be missing from the path
MatchesLoosely(pat, q) ==
    \/ Bindings(pat, q).ok
    \/ EndsWithSlash(q) /\ Bindings(pat, SubSeq(q, 1, Len(q) - 1)).ok
    \/ EndsWithSlash(pat) /\ Bindings(SubSeq(pat, 1, Len(pat) - 1), q).ok
    \/ /\ StarAt(pat, 0) < Len(pat)
       /\ LET pre == SubSeq(pat, 1, StarAt(pat, 0))
          IN  \/ Bindings(pre, q).ok
              \/ EndsWithSlash(pre) /\ Bindings(SubSeq(pre, 1, Len(pre) - 1), q).ok

\* a differently-named parameter at the same position after the same prefix
Ambiguous(p, q) ==
    \E i \in NamedAt(p) \cap NamedAt(q) :
        /\ SubSeq(p, 1, i) = SubSeq(q, 1, i)
        /\ NameAt(p, i) # NameAt(q, i)

(***************************************************************************)
(* The properties.                                                         *)
(***************************************************************************)

\* C1 (insertion totality): when the patterns added so far are distinct and
\* no two of them are an ambiguous-named-parameter pair, no add has failed and
\* find(p) returns the payload registered for p, for every pattern p added.
C1_InsertionTotality ==
    (\A i, j \in 1..Len(calls) :
        i # j => /\ calls[i].pattern # calls[j].pattern
                 /\ ~Ambiguous(calls[i].pattern, calls[j].pattern))
    => \A i \in 1..Len(calls) :
        /\ calls[i].err = NoError
        /\ find(root, calls[i].pattern).payload = calls[i].payload

\* the registrations that match the path of the latest find, by kind
MatchingOfKind(kind) ==
    { c \in Registered :
        Matches(c.pattern, path) /\ compute_priority(c.pattern).kind = kind }

\* C2 (specificity): when a registered literal pattern and a registered named
\* or catch-all pattern both match the path, find returns the payload of a
\* matching literal pattern; when no literal pattern matches and a named and
\* a catch-all pattern both do, find returns the payload of a matching named
\* pattern.
C2_Specificity ==
    op = "find" =>
        /\ (MatchingOfKind(Normal) # {}
            /\ MatchingOfKind(Named) \cup MatchingOfKind(Glob) # {})
           => \E c \in MatchingOfKind(Normal) : result.payload = c.payload
        /\ (MatchingOfKind(Normal) = {} /\ MatchingOfKind(Named) # {}
            /\ MatchingOfKind(Glob) # {})
           => \E c \in MatchingOfKind(Named) : result.payload = c.payload

\* C3 (a named parameter takes one segment and the rest must match): when
\* find returns the payload of a pattern that has a named parameter, that
\* pattern matches the path, in the widest reading of "matches".
C3_NamedTakesOneSegment ==
    (op = "find" /\ result.payload # NoPayload
        /\ NamedAt(PatternOf(result.payload)) # {})
    => MatchesLoosely(PatternOf(result.payload), path)

\* C4 (parameter binding): when find returns the payload of a registered
\* pattern, every parameter of that pattern is bound in the result, and when
\* the pattern matches the path scalar for scalar each is bound to the value
\* of the reference match.
C4_ParameterBinding ==
    (op = "find" /\ result.payload # NoPayload)
    => LET pat == PatternOf(result.payload)
           ref == Bindings(pat, path)
       IN  \A n \in ParamNames(pat) :
              /\ n \in DOMAIN result.params
              /\ ref.ok => result.params[n] = ref.params[n]

\* the path of the latest find is p + "/" for a registered literal pattern p
\* that does not end with "/"
AsksWithTrailingSlash ==
    /\ op = "find"
    /\ Len(path) >= 2
    /\ EndsWithSlash(path)
    /\ LET p == SubSeq(path, 1, Len(path) - 1)
       IN  /\ IsLiteral(p)
           /\ ~EndsWithSlash(p)
           /\ \E c \in Registered : c.pattern = p

\* C5 (trailing-slash tolerance): for a registered literal pattern p that
\* does not end with "/", find(p + "/") returns the payload find(p) returns.
C5_TrailingSlash ==
    AsksWithTrailingSlash
    => result.payload = find(root, SubSeq(path, 1, Len(path) - 1)).payload

\* C5, its case: p + "/" was looked up and the payload registered for p came
\* back.
C5_Witness ==
    /\ AsksWithTrailingSlash
    /\ result.payload # NoPayload
    /\ PatternOf(result.payload) = SubSeq(path, 1, Len(path) - 1)

\* the registrations /prefix/*name and /prefix*name whose /prefix is q, the
\* prefix not empty and /prefix not itself registered
OptionalCatchAllOf(q) ==
    { c \in Registered :
        /\ StarAt(c.pattern, 0) < Len(c.pattern)
        /\ \/ SubSeq(c.pattern, 1, StarAt(c.pattern, 0)) = q \o <<"/">>
           \/ SubSeq(c.pattern, 1, StarAt(c.pattern, 0)) = q /\ ~EndsWithSlash(q)
        /\ Len(q) >= 2
        /\ \A d \in Registered : d.pattern # q }

\* C6 (optional catch-all): when /prefix/*name (or /prefix*name) is
\* registered and /prefix is not, find("/prefix") returns that pattern's
\* payload with name bound to the empty string.
C6_OptionalCatchAll ==
    op = "find" =>
        \A c \in OptionalCatchAllOf(path) :
            LET name == SubSeq(c.pattern, StarAt(c.pattern, 0) + 2, Len(c.pattern))
            IN  /\ result.payload = c.payload
                /\ name \in DOMAIN result.params
                /\ result.params[name] = <<>>

\* every three-byte scalar replaced by the one-byte scalar "u", which no
\* pattern or path of the model contains
Narrow(s) == [i \in 1..Len(s) |-> IF s[i] \in Wide THEN "u" ELSE s[i]]

\* the first n calls made again with the narrowed patterns, on a new tree
RECURSIVE NarrowRun(_)
NarrowRun(n) ==
    IF n = 0 THEN [err |-> NoError, node |-> TreeNew]
    ELSE LET before == NarrowRun(n - 1)
         IN  IF before.err # NoError THEN before
             ELSE add(before.node, Narrow(calls[n].pattern), calls[n].payload)

\* the shape of a tree: keys (narrowed), payloads and the order of children
RECURSIVE Shape(_)
Shape(node) ==
    [key |-> Narrow(node.key),
     payload |-> node.payload,
     children |-> [i \in 1..Len(node.children) |-> Shape(node.children[i])]]

\* C7 (unicode): the calls made with multi-byte scalars and the same calls
\* made with each multi-byte scalar replaced by a one-byte scalar fail alike,
\* build trees of the same shape and give the same lookup result.
C7_UnicodeAsScalars ==
    LET narrow == NarrowRun(Len(calls))
        found == find(narrow.node, Narrow(path))
    IN  /\ (calls # <<>> => LastCall.err = narrow.err)
        /\ Shape(root) = Shape(narrow.node)
        /\ op = "find" => /\ result.payload = found.payload
                          /\ Narrow(key_of(result)) = key_of(found)

\* C8 (duplicate registration): an add of a pattern that is already
\* registered fails with the duplicate error and leaves the tree as it was.
C8_DuplicateFails ==
    [][(/\ Len(calls') = Len(calls) + 1
        /\ \E c \in Registered : c.pattern = calls'[Len(calls')].pattern)
       => /\ calls'[Len(calls')].err = DuplicateError
          /\ root' = root]_vars

\* C9 (ambiguous named parameter): an add of a pattern that puts a
\* differently-named parameter where a registered pattern has a parameter
\* fails with the shared-key (ambiguous named parameter) error.
C9_AmbiguousFails ==
    (calls # <<>> /\ \E c \in RegisteredBefore : Ambiguous(LastCall.pattern, c.pattern))
    => LastCall.err = SharedKeyError

\* C10 (unmatched lookup): when the path matches no registered pattern, in
\* the widest reading of "matches", the result has no payload and key() is
\* the empty string.
C10_UnmatchedIsEmpty ==
    (op = "find" /\ \A c \in Registered : ~MatchesLoosely(c.pattern, path))
    => /\ result.payload = NoPayload
       /\ key_of(result) = <<>>

RECURSIVE Height(_)
Height(node) ==
    IF node.children = <<>> THEN 1
    ELSE 1 + Height(node.children[
                 CHOOSE i \in 1..Len(node.children) :
                     \A j \in 1..Len(node.children) :
                         Height(node.children[j]) <= Height(node.children[i])])

\* C12 (lookup never fails): in every tree the adds build and for every
\* path, find returns without a panic (no substring call subtracts below
\* zero) after descending at most the height of the tree, and on the empty
\* placeholder tree it returns the empty result: no payload, no nodes.
C12_LookupNeverFails ==
    op = "find" =>
        /\ ~find_panics(path, root, TRUE)
        /\ Len(result.nodes) <= Height(root)
        /\ root = TreeNew => result = ResultNew

\* C12, its case: a find that descended into a child and scanned a named
\* parameter there, where substring is called.
C12_Witness ==
    /\ op = "find"
    /\ Len(result.nodes) >= 2
    /\ HasMarker(result.nodes[Len(result.nodes)], ":")
    /\ \E n \in DOMAIN result.params : result.params[n] # <<>>

\* C13 (root-only pattern): in a tree whose only registered pattern is "/",
\* find returns the payload for the path "/" and for no other path.
C13_RootOnly ==
    (/\ op = "find"
     /\ Len(calls) = 1
     /\ calls[1].pattern = <<"/">>
     /\ calls[1].err = NoError)
    => (result.payload # NoPayload <=> path = <<"/">>)

\* the priority of a key counted in scalars: the index of its first marker,
\* or the number of its scalars when it has none
ScalarPriority(key) ==
    IF compute_priority(key).kind = Normal THEN Len(key)
    ELSE compute_priority(key).priority

\* child a may stand before child b: a lower kind, or the same kind and a
\* priority in scalars that is not lower
MayPrecede(a, b) ==
    \/ compute_priority(a.key).kind < compute_priority(b.key).kind
    \/ /\ compute_priority(a.key).kind = compute_priority(b.key).kind
       /\ ScalarPriority(a.key) >= ScalarPriority(b.key)

RECURSIVE ChildrenInOrder(_)
ChildrenInOrder(node) ==
    /\ \A i \in 1..(Len(node.children) - 1) :
          MayPrecede(node.children[i], node.children[i + 1])
    /\ \A i \in 1..Len(node.children) : ChildrenInOrder(node.children[i])

\* C14 (child order): after every add the children of every node are sorted
\* by kind ascending and, within a kind, by priority descending, the
\* priority being the number of scalars before the first marker (all the
\* scalars of a literal key).
C14_ChildOrder ==
    op = "add" => ChildrenInOrder(root)

\* the scan of the root key by the path of the latest find stopped inside the
\* key, at a scalar of the key the path does not have, with exactly one
\* scalar of the path left, a "/"
DivergesBeforeTrailingSlash ==
    LET s == scan(path, root.key, 0, 0, NoParams)
    IN  /\ op = "find"
        /\ s.stop = "break"
        /\ s.key_pos < Len(root.key)
        /\ s.path_pos + 1 = Len(path)
        /\ Nth(path, s.path_pos) = "/"

\* C15 (a trailing slash of the path is tolerated only at a fully consumed
\* key): when the path diverges from the key of a node part-way and has one
\* "/" left, find does not return that node's payload.
C15_TrailingSlashAtConsumedKey ==
    (DivergesBeforeTrailingSlash /\ root.payload # NoPayload)
    => result.payload # root.payload

\* C16 (the same parameter name is accepted): an add of a pattern not yet
\* registered fails with the shared-key error only if the pattern and a
\* registered pattern name the parameter at the same position differently;
\* when they name it alike (":a/b" arriving at the child ":a", or ":a" at the
\* child ":a/b") the add does not fail, in either order of insertion.
C16_SameNameAccepted ==
    (/\ calls # <<>>
     /\ \A c \in RegisteredBefore :
           /\ c.pattern # LastCall.pattern
           /\ ~Ambiguous(LastCall.pattern, c.pattern))
    => LastCall.err = NoError

\* no two children of a node, at any depth below this node, have keys with
\* the same first scalar, as same_first_char compares them (two empty keys
\* have the same, absent, first scalar)
RECURSIVE FirstScalarsDistinct(_)
FirstScalarsDistinct(node) ==
    /\ \A i, j \in 1..Len(node.children) :
          i # j => Nth(node.children[i].key, 0) # Nth(node.children[j].key, 0)
    /\ \A i \in 1..Len(node.children) : FirstScalarsDistinct(node.children[i])

\* C17 (unique first character): after the adds that returned, no two
\* children of the same node have keys that begin with the same scalar.
C17_UniqueFirstCharacter ==
    op = "add" => FirstScalarsDistinct(root)

\* the children of a node whose kind field is kind
ChildrenOfKind(node, kind) ==
    { i \in 1..Len(node.children) : node.children[i].kind = kind }

\* the children of a node whose key begins with the marker m
ChildrenBeginning(node, m) ==
    { i \in 1..Len(node.children) : Nth(node.children[i].key, 0) = m }

RECURSIVE KindsUnique(_)
KindsUnique(node) ==
    /\ Cardinality(ChildrenOfKind(node, Named)) <= 1
    /\ Cardinality(ChildrenOfKind(node, Glob)) <= 1
    /\ \A i \in 1..Len(node.children) : KindsUnique(node.children[i])

RECURSIVE MarkersUnique(_)
MarkersUnique(node) ==
    /\ Cardinality(ChildrenBeginning(node, ":")) <= 1
    /\ Cardinality(ChildrenBeginning(node, "*")) <= 1
    /\ \A i \in 1..Len(node.children) : MarkersUnique(node.children[i])

\* C18 (wildcard children are unique), as stated: after the adds that
\* returned, every node has at most one child of kind Named and at most one
\* child of kind Glob, the kind being that of the first marker anywhere in
\* the child's key.
C18_WildcardChildrenUnique ==
    op = "add" => KindsUnique(root)

\* C18, amended: after the adds that returned, every node has at most one
\* child whose key begins with ":" and at most one child whose key begins
\* with "*".
C18_MarkerChildrenUnique ==
    op = "add" => MarkersUnique(root)

\* C18, its case: a node has a child whose key begins with ":" beside
\* another child of kind Named, whose key has its ":" further in.
C18_Witness ==
    /\ op = "add"
    /\ Cardinality(ChildrenBeginning(root, ":")) = 1
    /\ Cardinality(ChildrenOfKind(root, Named)) >= 2

\* the pairs (keys from the root down to a node, concatenated; the payload
\* of the node) of the payload-bearing nodes at or below this node, pre
\* being the concatenated keys of the nodes above it
RECURSIVE PayloadPairs(_, _)
PayloadPairs(node, pre) ==
    (IF node.payload # NoPayload THEN { <<pre \o node.key, node.payload>> } ELSE {})
    \cup UNION { PayloadPairs(node.children[i], pre \o node.key) :
                    i \in 1..Len(node.children) }

\* the number of payload-bearing nodes at or below this node
RECURSIVE PayloadNodes(_)
PayloadNodes(node) ==
    LET below[i \in 0..Len(node.children)] ==
            IF i = 0 THEN 0 ELSE below[i - 1] + PayloadNodes(node.children[i])
    IN  (IF node.payload # NoPayload THEN 1 ELSE 0) + below[Len(node.children)]

\* no node at or below this node has an empty key
RECURSIVE NoEmptyKey(_)
NoEmptyKey(node) ==
    /\ node.key # <<>>
    /\ \A i \in 1..Len(node.children) : NoEmptyKey(node.children[i])

\* C19 (path concatenation): after the adds that returned, the pairs
\* (concatenation of the keys from the root to a node, payload of the node)
\* of the payload-bearing nodes are the (pattern, payload) pairs added, each
\* held by one node, and no node has an empty key.
C19_PathConcatenation ==
    op = "add" =>
        /\ PayloadPairs(root, <<>>) = { <<c.pattern, c.payload>> : c \in Registered }
        /\ PayloadNodes(root) = Cardinality(Registered)
        /\ NoEmptyKey(root)

====
